---- MODULE Spec2Model ----
(***************************************************************************)
(* AI Novelist Studio (src/app.py): a Streamlit script.  Every user        *)
(* interaction re-runs the script top to bottom for the session that was   *)
(* touched; st.rerun() aborts the run and starts another.  A session is a  *)
(* record (st.session_state, the widget values, the script's position);    *)
(* os.environ belongs to the server process and is shared by the sessions  *)
(* that process serves.  Python strings are TLA+ strings, f-strings are    *)
(* concatenations, a dict is a function on its keys.                       *)
(***************************************************************************)
EXTENDS Integers, Sequences, FiniteSets, TLC

VARIABLES sess, environ, procOf, entered

vars == <<sess, environ, procOf, entered>>

\* ------------------------------------------------------------------ bounds
\* Analyze & Edit clicks the user makes between two resets.
MaxAnalyze == 2
\* Script runs followed within one interaction.
MaxRuns == 3

\* ------------------------------------------------------------ input domains
KeyChoices == {"", "sk-A", "sk-B"}
Genres == <<"Techno-Thriller", "Cyberpunk", "High Fantasy", "Romance">>
GenreChoices == {Genres[1], Genres[2]}
DefaultStyle == "Hemingway-esque brevity"
StyleChoices == {DefaultStyle, "Baroque"}
PremiseChoices == {"", "Jinx hacks the mainframe."}
CardEdits == {"", "<scene>edited by hand</scene>"}
Keep == "<keep>"
Buttons == {"clear", "generate", "write", "analyze"}

\* ----------------------------------------------------------------- helpers
EmptyMap == [k \in {} |-> ""]
StateKeys == {"story_bible", "scene_card", "draft", "report"}
Put(d, k, v) == (k :> v) @@ d
Restrict(d, S) == [k \in (DOMAIN d) \cap S |-> d[k]]
IsPrefix(a, b) == Len(a) <= Len(b) /\ SubSeq(b, 1, Len(a)) = a

\* ------------------------------------------------------- the mock functions
\* (a generate_outline that puts the story bible into the outline)
generate_outline_ctx(premise, genre, context) ==
    "{\n    \"title\": \"Mock Outline for " \o genre \o "\",\n    \"context\": "
    \o context \o ",\n    \"beats\": [\n"
    \o "        \"1. " \o premise \o " (The Setup)\",\n"
    \o "        \"2. The protagonist faces a glitch in the system.\",\n"
    \o "        \"3. A sudden betrayal occurs.\",\n"
    \o "        \"4. Cliffhanger ending.\"\n    ]\n}"

generate_outline(premise, genre, context) ==
    "{\n    \"title\": \"Mock Outline for " \o genre \o "\",\n    \"beats\": [\n"
    \o "        \"1. " \o premise \o " (The Setup)\",\n"
    \o "        \"2. The protagonist faces a glitch in the system.\",\n"
    \o "        \"3. A sudden betrayal occurs.\",\n"
    \o "        \"4. Cliffhanger ending.\"\n    ]\n}"

\* (the em dash of line 78 is written "--")
write_draft(scene_card, style) ==
    "\n    The neon lights of the server room hummed with a headache-inducing buzz. \n"
    \o "    This was the style of " \o style \o "--short, punchy, no nonsense.\n    \n"
    \o "    \"System breach,\" the console read.\n    \n"
    \o "    He didn't panic. He never panicked. He just typed faster, his fingers "
    \o "blurring like hummingbirds against the mechanical keys.\n"
    \o "    (This is a mock draft generated based on: " \o scene_card \o ")\n    "

critique_draft(draft, genre) ==
    "\n    # Editorial Report\n"
    \o "    * **Genre Compliance:** " \o genre \o " conventions are met.\n"
    \o "    * **Pacing:** Good, but the middle section drags.\n"
    \o "    * **Logic Check:** Why did the console buzz? Servers are usually silent.\n    "

\* json.dumps of the story bible.  No code puts a character into the dict, so
\* only the empty dict is rendered; the input domains hold no character that
\* json.dumps would escape.
JsonDumps(bible) ==
    "{\"characters\": {}, \"summary\": \"" \o bible.summary \o "\"}"

InitialBible == [characters |-> EmptyMap, summary |-> "Start of the story."]

\* ChatOpenAI(model="gpt-4-turbo", temperature=0.7): the client takes its
\* credential from OPENAI_API_KEY in the process environment when it is built.
ChatOpenAI(env) == [model |-> "gpt-4-turbo", openai_api_key |-> env]

\* ------------------------------------------------------------- the session
NewSession ==
    [pc       |-> "sidebar",       \* the page load runs the script once
     ss       |-> EmptyMap,        \* st.session_state
     api_key  |-> "",              \* the widgets' values
     genre    |-> Genres[1],
     style    |-> DefaultStyle,
     premise  |-> "",
     widgets  |-> EmptyMap,        \* Scene Card text areas: id (its value=) -> text
     clicked  |-> "none",          \* the button whose trigger is set
     llm      |-> <<>>,            \* <<>> is None, <<client>> a ChatOpenAI
     rendered |-> {},              \* what this run has put on the page
     ids      |-> {},              \* the text-area ids this run has rendered
     display  |-> {},              \* the page after the last finished run
     rerun    |-> FALSE,           \* st.rerun() was called by this run
     error    |-> "",              \* an uncaught exception of this run
     \* history of the current interaction
     isRerun  |-> FALSE,           \* this run was started by st.rerun()
     click    |-> "none",          \* the button the user clicked
     card0    |-> "",              \* scene_card when the interaction began
     fired    |-> "none",          \* the handler that ran
     stages   |-> 0,               \* mock functions invoked
     lateStages |-> 0,             \* ... of them, by a run st.rerun() started
     reruns   |-> 0,               \* st.rerun() calls
     call     |-> <<>>,            \* the mock function call: fn, args, gate, result
     \* history since the session was created or last reset
     outlineDone |-> FALSE,
     premLog  |-> <<>>]

Has(r, k) == k \in DOMAIN r.ss
Truthy(s) == s # ""
KeyError(r) == [r EXCEPT !.error = "KeyError", !.pc = "finish"]
Out(r, env) == [r |-> r, env |-> env]

\* --------------------------------------------------- the script, in segments
\* Each segment is the script between two points where another session's run
\* can be scheduled; it maps the session and the environment variable to their
\* values after it.

\* (a sidebar that unsets the variable when the field is empty)
SidebarClearsKey(r, env) == Out([r EXCEPT !.pc = "reset"], r.api_key)

\* Lines 16-22: the API key field and os.environ["OPENAI_API_KEY"].
SidebarSeg(r, env) ==
    Out([r EXCEPT !.pc = "reset"], IF Truthy(r.api_key) THEN r.api_key ELSE env)

\* (a reset that forgets the outline, the draft and the report only)
ClearKeepsBible(ss) == Restrict(ss, {"story_bible"})

\* Line 33: session_state.clear() deletes the script's keys; the widgets, none
\* of which has a key, keep their values.
Clear(ss) == EmptyMap

\* Lines 27-34: genre, tone, style, and the Clear Session Memory button.
ResetSeg(r, env) ==
    IF r.clicked = "clear"
    THEN Out([r EXCEPT !.ss = Clear(r.ss), !.rerun = TRUE, !.pc = "finish",
                       !.fired = "reset", !.reruns = @ + 1,
                       !.outlineDone = FALSE, !.premLog = <<>>], env)
    ELSE Out([r EXCEPT !.pc = "init"], env)

\* Lines 40-50: the four keys get their defaults when absent.
InitSeg(r, env) ==
    LET defaults == [story_bible |-> InitialBible, scene_card |-> "",
                     draft |-> "", report |-> ""]
    IN  Out([r EXCEPT !.ss = r.ss @@ defaults, !.pc = "llm"], env)

\* Lines 54-56: llm.
LLMSeg(r, env) ==
    Out([r EXCEPT !.llm = IF Truthy(r.api_key) THEN <<ChatOpenAI(env)>> ELSE <<>>,
                  !.pc = "col1"], env)

\* What every button handler does besides its own work: count the mock call,
\* record it, and call st.rerun().
Invoked(r, name, fn, args, gate, result) ==
    [r EXCEPT !.rerun = TRUE, !.pc = "finish", !.fired = name,
              !.reruns = @ + 1, !.stages = @ + 1,
              !.lateStages = @ + (IF r.isRerun THEN 1 ELSE 0),
              !.call = <<[fn |-> fn, args |-> args, gate |-> gate, result |-> result]>>]

\* Lines 103-107: the Generate Outline handler.
GenerateBody(r, env) ==
    IF ~Has(r, "story_bible") THEN Out(KeyError(r), env)
    ELSE LET bible_context == JsonDumps(r.ss["story_bible"])
             outline == generate_outline(r.premise, r.genre, bible_context)
             done == Invoked(r, "outline", "generate_outline",
                             <<r.premise, r.genre, bible_context>>, "", outline)
         IN  Out([done EXCEPT !.ss = Put(r.ss, "scene_card", outline),
                              !.outlineDone = TRUE], env)

\* (a Generate Outline that does nothing without an LLM client)
GenerateNeedsLLM(r, env) ==
    IF r.clicked = "generate" /\ r.llm # <<>> THEN GenerateBody(r, env)
    ELSE Out([r EXCEPT !.pc = "card"], env)

\* (a Generate Outline that discards the draft and report of the old outline)
GenerateInvalidates(r, env) ==
    IF r.clicked = "generate"
    THEN LET o == GenerateBody(r, env)
         IN  Out([o.r EXCEPT !.ss = Put(Put(@, "draft", ""), "report", "")], env)
    ELSE Out([r EXCEPT !.pc = "card"], env)

\* Lines 98-107: the premise field and the Generate Outline button.
GenerateSeg(r, env) ==
    IF r.clicked = "generate" THEN GenerateBody(r, env)
    ELSE Out([r EXCEPT !.pc = "card"], env)

\* Lines 112-119: the editable Scene Card and the Write Draft button.  A text
\* area without a key is identified by its arguments: one whose value= is new
\* starts from that value, one whose value= is unchanged returns what the user
\* typed into it.
SceneCardBody(r, env) ==
    LET id == r.ss["scene_card"]
        edited_card == IF id \in DOMAIN r.widgets THEN r.widgets[id] ELSE id
        shown == [r EXCEPT !.widgets = Put(r.widgets, id, edited_card),
                           !.ids = @ \cup {id},
                           !.rendered = @ \cup {"card", "write"},
                           !.ss = Put(r.ss, "scene_card", edited_card)]
    IN  IF r.clicked = "write"
        THEN LET draft == write_draft(shown.ss["scene_card"], r.style)
                 done == Invoked(shown, "draft", "write_draft",
                                 <<shown.ss["scene_card"], r.style>>, id, draft)
             IN  Out([done EXCEPT !.ss = Put(shown.ss, "draft", draft)], env)
        ELSE Out([shown EXCEPT !.pc = "col2"], env)

\* (a Scene Card area shown whether or not an outline exists)
SceneCardUngated(r, env) ==
    IF ~Has(r, "scene_card") THEN Out(KeyError(r), env) ELSE SceneCardBody(r, env)

\* Lines 111-119: the Scene Card area, shown when an outline exists.
SceneCardSeg(r, env) ==
    IF ~Has(r, "scene_card") THEN Out(KeyError(r), env)
    ELSE IF ~Truthy(r.ss["scene_card"]) THEN Out([r EXCEPT !.pc = "col2"], env)
    ELSE SceneCardBody(r, env)

\* (an archivist that assigns where the code appends)
ArchivistOverwrites(summary, premise_input) == " -> Processed premise: " \o premise_input

\* Line 133: the mock archivist.
ArchivistUpdate(summary, premise_input) ==
    summary \o " -> Processed premise: " \o premise_input

\* Lines 121-134: the manuscript, the Analyze & Edit button, the archivist.
AnalyzeSeg(r, env) ==
    IF ~Has(r, "draft") THEN Out(KeyError(r), env)
    ELSE IF ~Truthy(r.ss["draft"]) THEN Out([r EXCEPT !.pc = "report"], env)
    ELSE LET shown == [r EXCEPT !.rendered = @ \cup {"prose", "analyze"}]
         IN  IF r.clicked = "analyze"
             THEN IF ~Has(r, "story_bible") THEN Out(KeyError(shown), env)
                  ELSE LET report == critique_draft(r.ss["draft"], r.genre)
                           bible == r.ss["story_bible"]
                           summary == ArchivistUpdate(bible.summary, r.premise)
                           done == Invoked(shown, "critique", "critique_draft",
                                           <<r.ss["draft"], r.genre>>, r.ss["draft"], report)
                       IN  Out([done EXCEPT
                                  !.ss = Put(Put(r.ss, "report", report), "story_bible",
                                             [bible EXCEPT !.summary = summary]),
                                  !.premLog = Append(@, r.premise)], env)
             ELSE Out([shown EXCEPT !.pc = "report"], env)

\* Lines 137-142: the editorial report and the story bible.
ReportSeg(r, env) ==
    IF ~Has(r, "report") THEN Out(KeyError(r), env)
    ELSE IF ~Truthy(r.ss["report"]) THEN Out([r EXCEPT !.pc = "finish"], env)
    ELSE IF ~Has(r, "story_bible") THEN Out(KeyError(r), env)
    ELSE Out([r EXCEPT !.rendered = @ \cup {"report", "bible"}, !.pc = "finish"], env)

\* (a run's end that leaves the button triggers set)
FinishKeepsTriggers(r, env) ==
    LET done == [r EXCEPT !.widgets = Restrict(r.widgets, r.ids),
                          !.ids = {}, !.rendered = {}, !.rerun = FALSE]
    IN  IF r.rerun
        THEN Out([done EXCEPT !.pc = "sidebar", !.isRerun = TRUE], env)
        ELSE Out([done EXCEPT !.pc = "idle", !.display = r.rendered], env)

\* The end of a run, by the last line or by st.rerun(): the button triggers
\* are reset, the state of widgets the run did not render is dropped, and the
\* run st.rerun() asked for starts; otherwise the page waits for the user.
FinishSeg(r, env) ==
    LET done == [r EXCEPT !.clicked = "none", !.widgets = Restrict(r.widgets, r.ids),
                          !.ids = {}, !.rendered = {}, !.rerun = FALSE]
    IN  IF r.rerun
        THEN Out([done EXCEPT !.pc = "sidebar", !.isRerun = TRUE], env)
        ELSE Out([done EXCEPT !.pc = "idle", !.display = r.rendered], env)

RunSeg(r, env) ==
    CASE r.pc = "sidebar" -> SidebarSeg(r, env)
      [] r.pc = "reset"   -> ResetSeg(r, env)
      [] r.pc = "init"    -> InitSeg(r, env)
      [] r.pc = "llm"     -> LLMSeg(r, env)
      [] r.pc = "col1"    -> GenerateSeg(r, env)
      [] r.pc = "card"    -> SceneCardSeg(r, env)
      [] r.pc = "col2"    -> AnalyzeSeg(r, env)
      [] r.pc = "report"  -> ReportSeg(r, env)
      [] r.pc = "finish"  -> FinishSeg(r, env)

\* One interaction, to quiescence: the run the user's message starts and the
\* runs st.rerun() starts after it, followed for at most MaxRuns runs.
Segments == {"sidebar", "reset", "init", "llm", "col1", "card", "col2", "report", "finish"}

RECURSIVE RunFor(_, _, _)
RunFor(n, r, env) ==
    IF r.pc = "idle" \/ n = 0 THEN Out(r, env)
    ELSE LET o == RunSeg(r, env) IN RunFor(n - 1, o.r, o.env)

RunScript(r, env) == RunFor(MaxRuns * Cardinality(Segments), r, env)

\* ------------------------------------------------------------ the user
\* What one message of the browser carries: the widgets' values, of which at
\* most one has changed, and at most one button trigger.  An edit of the Scene
\* Card and the click that follows it can arrive as one run.
Inputs ==
    [api_key : KeyChoices, genre : GenreChoices, style : StyleChoices,
     premise : PremiseChoices, card : CardEdits \cup {Keep},
     click : Buttons \cup {"none"}]

CardText(r) == IF DOMAIN r.widgets = {} THEN Keep
               ELSE r.widgets[CHOOSE id \in DOMAIN r.widgets : TRUE]

SidebarChanges(r, in) ==
    (IF in.api_key # r.api_key THEN 1 ELSE 0) + (IF in.genre # r.genre THEN 1 ELSE 0)
    + (IF in.style # r.style THEN 1 ELSE 0) + (IF in.premise # r.premise THEN 1 ELSE 0)

Changes(r, in) == SidebarChanges(r, in) + (IF in.card # Keep THEN 1 ELSE 0)

CanAct(r, in) ==
    /\ r.pc = "idle"
    /\ in.card # Keep => "card" \in r.display /\ in.card # CardText(r)
    /\ in.click \in {"none", "clear", "generate"} \cup (r.display \cap Buttons)
    /\ in.click = "analyze" => Len(r.premLog) < MaxAnalyze
    /\ Changes(r, in) <= 1
    /\ IF in.click = "none" THEN Changes(r, in) = 1 ELSE SidebarChanges(r, in) = 0

ApplyInput(r, in) ==
    [r EXCEPT !.pc = "sidebar", !.api_key = in.api_key, !.genre = in.genre,
              !.style = in.style, !.premise = in.premise,
              !.widgets = IF in.card = Keep THEN @
                          ELSE [id \in DOMAIN r.widgets |-> in.card],
              !.clicked = in.click, !.error = "",
              !.isRerun = FALSE, !.click = in.click,
              !.card0 = IF Has(r, "scene_card") THEN r.ss["scene_card"] ELSE "",
              !.fired = "none", !.stages = 0, !.lateStages = 0, !.reruns = 0,
              !.call = <<>>]

Typed(r, in, was) == IF in.api_key # "" /\ in.api_key # r.api_key THEN in.api_key ELSE was

\* ------------------------------------------- one session, one server process
Interact(s, in) ==
    /\ CanAct(sess[s], in)
    /\ LET o == RunScript(ApplyInput(sess[s], in), environ[procOf[s]])
       IN  /\ sess' = [sess EXCEPT ![s] = o.r]
           /\ environ' = [environ EXCEPT ![procOf[s]] = o.env]
    /\ entered' = [entered EXCEPT ![procOf[s]] = Typed(sess[s], in, @)]
    /\ UNCHANGED procOf

PageLoad(s) ==
    /\ sess[s] = NewSession
    /\ LET o == RunScript(sess[s], environ[procOf[s]])
       IN  /\ sess' = [sess EXCEPT ![s] = o.r]
           /\ environ' = [environ EXCEPT ![procOf[s]] = o.env]
    /\ UNCHANGED <<procOf, entered>>

\* The input domains of the two single-session specifications: the pipeline's
\* inputs with one key, and the keys with one premise and one genre.
FlowInputs == {in \in Inputs : in.style = DefaultStyle /\ in.api_key \in {"", "sk-A"}}
KeyInputs == {in \in Inputs : in.genre = Genres[1] /\ in.premise = "" /\ in.card \in {Keep, ""}}

Click(s, button, In) == \E in \in In : in.click = button /\ Interact(s, in)

EditWidget(s) == Click(s, "none", FlowInputs)
ClearSessionMemory(s) == Click(s, "clear", FlowInputs)
GenerateOutline(s) == Click(s, "generate", FlowInputs)
WriteDraft(s) == Click(s, "write", FlowInputs)
AnalyzeEdit(s) == Click(s, "analyze", FlowInputs)

Init ==
    /\ sess = [s \in {1} |-> NewSession]
    /\ procOf = [s \in {1} |-> 1]
    /\ environ = [p \in {1} |-> ""]
    /\ entered = [p \in {1} |-> ""]

Next ==
    \/ \E s \in DOMAIN sess : PageLoad(s)
    \/ \E s \in DOMAIN sess : EditWidget(s)
    \/ \E s \in DOMAIN sess : ClearSessionMemory(s)
    \/ \E s \in DOMAIN sess : GenerateOutline(s)
    \/ \E s \in DOMAIN sess : WriteDraft(s)
    \/ \E s \in DOMAIN sess : AnalyzeEdit(s)

Spec == Init /\ [][Next]_vars

NextKey ==
    \/ \E s \in DOMAIN sess : PageLoad(s)
    \/ \E s \in DOMAIN sess : Click(s, "none", KeyInputs)
    \/ \E s \in DOMAIN sess, button \in Buttons : Click(s, button, KeyInputs)

SpecKey == Init /\ [][NextKey]_vars

\* --------------------------- two sessions served by one process, interleaved
\* Each session's run is a thread of the server; the threads are scheduled
\* between the segments of the script.
ConcInputs ==
    {in \in Inputs : /\ in.style = DefaultStyle /\ in.genre = Genres[1]
                     /\ in.premise = "" /\ in.card = Keep
                     /\ in.click \in {"none", "generate"}}

UserAct(s) ==
    \E in \in ConcInputs :
        /\ CanAct(sess[s], in)
        /\ sess' = [sess EXCEPT ![s] = ApplyInput(sess[s], in)]
        /\ entered' = [entered EXCEPT ![procOf[s]] = Typed(sess[s], in, @)]
        /\ UNCHANGED <<environ, procOf>>

ScriptStep(s) ==
    /\ sess[s].pc # "idle"
    /\ LET o == RunSeg(sess[s], environ[procOf[s]])
       IN  /\ sess' = [sess EXCEPT ![s] = o.r]
           /\ environ' = [environ EXCEPT ![procOf[s]] = o.env]
    /\ UNCHANGED <<procOf, entered>>

InitConc ==
    /\ sess = [s \in {1, 2} |-> NewSession]
    /\ procOf = [s \in {1, 2} |-> 1]
    /\ environ = [p \in {1} |-> ""]
    /\ entered = [p \in {1} |-> ""]

NextConc ==
    \/ \E s \in DOMAIN sess : UserAct(s)
    \/ \E s \in DOMAIN sess : ScriptStep(s)

SpecConc == InitConc /\ [][NextConc]_vars

\* ------- two executions, each its own process, given the same interactions
\* but for the key typed into the API key field
PairInputs == {in \in Inputs : in.style = DefaultStyle /\ in.genre = Genres[1]
                                /\ in.api_key = ""}

PairKeys == <<{"", "sk-A"}, {"", "sk-B"}>>

WithKey(in, k) == [in EXCEPT !.api_key = k]

\* The same message for both, but each keeps its own key ...
PairInteract(in) ==
    LET mine == [s \in {1, 2} |-> WithKey(in, sess[s].api_key)]
        o == [s \in {1, 2} |-> RunScript(ApplyInput(sess[s], mine[s]), environ[s])]
    IN  /\ \A s \in {1, 2} : CanAct(sess[s], mine[s])
        /\ sess' = [s \in {1, 2} |-> o[s].r]
        /\ environ' = [p \in {1, 2} |-> o[p].env]
        /\ UNCHANGED <<procOf, entered>>

\* ... and the message that carries the key field, with a key of its own for
\* each (one of the two may leave the field as it is).
PairEnterKey(k1, k2) ==
    LET k == <<k1, k2>>
        mine == [s \in {1, 2} |->
                    [api_key |-> k[s], genre |-> sess[s].genre, style |-> sess[s].style,
                     premise |-> sess[s].premise, card |-> Keep, click |-> "none"]]
        o == [s \in {1, 2} |-> RunScript(ApplyInput(sess[s], mine[s]), environ[s])]
    IN  /\ \A s \in {1, 2} : sess[s].pc = "idle"
        /\ \E s \in {1, 2} : k[s] # sess[s].api_key
        /\ sess' = [s \in {1, 2} |-> o[s].r]
        /\ environ' = [p \in {1, 2} |-> o[p].env]
        /\ entered' = [p \in {1, 2} |-> Typed(sess[p], mine[p], entered[p])]
        /\ UNCHANGED procOf

PairLoad ==
    LET o == [s \in {1, 2} |-> RunScript(sess[s], environ[s])]
    IN  /\ \A s \in {1, 2} : sess[s] = NewSession
        /\ sess' = [s \in {1, 2} |-> o[s].r]
        /\ environ' = [p \in {1, 2} |-> o[p].env]
        /\ UNCHANGED <<procOf, entered>>

InitPair ==
    /\ sess = [s \in {1, 2} |-> NewSession]
    /\ procOf = [s \in {1, 2} |-> s]
    /\ environ = [p \in {1, 2} |-> ""]
    /\ entered = [p \in {1, 2} |-> ""]

NextPair ==
    \/ PairLoad
    \/ \E in \in PairInputs : PairInteract(in)
    \/ \E k1 \in PairKeys[1], k2 \in PairKeys[2] : PairEnterKey(k1, k2)

SpecPair == InitPair /\ [][NextPair]_vars

\* ================================================================== claims
Sessions == DOMAIN sess
Idle(r) == r.pc = "idle"
InitialState ==
    [story_bible |-> [characters |-> EmptyMap, summary |-> "Start of the story."],
     scene_card |-> "", draft |-> "", report |-> ""]
CallOf(r, fn) == r.call # <<>> /\ r.call[1].fn = fn

\* C1: after Clear Session Memory and the run it triggers, the session state
\* is the initial one (story bible with no characters and the summary "Start
\* of the story.", empty scene card, draft and report) whatever came before;
\* and no run reads a key of the session state that is absent.
C1_ResetRestoresInitial ==
    \A s \in Sessions :
        /\ sess[s].error = ""
        /\ Idle(sess[s]) => DOMAIN sess[s].ss = StateKeys
        /\ Idle(sess[s]) /\ sess[s].fired = "reset" => sess[s].ss = InitialState

\* A reset of a session that had an outline.
C1_Witness ==
    \E s \in Sessions :
        /\ Idle(sess[s]) /\ sess[s].fired = "reset" /\ sess[s].card0 # ""
        /\ "prose" \notin sess[s].display /\ sess[s].ss = InitialState

\* C2: a non-empty report implies a non-empty draft, a non-empty draft implies
\* that Generate Outline has completed since the session was created or last
\* reset; write_draft runs only in a run that found scene_card non-empty, and
\* critique_draft only in a run that found draft non-empty.
C2_StagesInOrder ==
    \A s \in Sessions :
        /\ Has(sess[s], "report") /\ Truthy(sess[s].ss["report"])
              => Has(sess[s], "draft") /\ Truthy(sess[s].ss["draft"])
        /\ Has(sess[s], "draft") /\ Truthy(sess[s].ss["draft"]) => sess[s].outlineDone
        /\ CallOf(sess[s], "write_draft") => Truthy(sess[s].call[1].gate)
        /\ CallOf(sess[s], "critique_draft") => Truthy(sess[s].call[1].gate)

C2_Witness ==
    \E s \in Sessions :
        /\ Idle(sess[s]) /\ CallOf(sess[s], "critique_draft")
        /\ Truthy(sess[s].ss["report"]) /\ Truthy(sess[s].ss["draft"])

LLMBuilt(r) == r.pc \notin {"sidebar", "reset", "init", "llm"}

C4_SessionsIsolated ==
    \A s \in Sessions :
        LLMBuilt(sess[s]) /\ sess[s].llm # <<>>
            => sess[s].llm[1].openai_api_key = sess[s].api_key

\* C5: the story bible has no characters and its summary is "Start of the
\* story." followed by one " -> Processed premise: <p>" per Analyze & Edit
\* click since the session was created or last reset, <p> the premise at that
\* click; only Analyze & Edit and reset change the story bible, and the
\* summary only grows between resets.
RECURSIVE SummaryOf(_)
SummaryOf(log) ==
    IF log = <<>> THEN "Start of the story."
    ELSE SummaryOf(SubSeq(log, 1, Len(log) - 1))
         \o " -> Processed premise: " \o log[Len(log)]

C5_BibleInv ==
    \A s \in Sessions :
        Has(sess[s], "story_bible") =>
            /\ sess[s].ss["story_bible"].characters = EmptyMap
            /\ sess[s].ss["story_bible"].summary = SummaryOf(sess[s].premLog)

C5_BibleStep ==
    \A s \in Sessions :
        Has(sess[s], "story_bible") /\ Has(sess'[s], "story_bible") =>
            LET old == sess[s].ss["story_bible"]
                new == sess'[s].ss["story_bible"]
            IN  /\ new # old => sess'[s].fired \in {"critique", "reset"}
                /\ sess'[s] # sess[s] /\ sess'[s].fired # "reset"
                      => IsPrefix(old.summary, new.summary)
                /\ sess'[s] # sess[s] /\ sess'[s].fired = "critique"
                      => Len(sess'[s].premLog) = Len(sess[s].premLog) + 1

C5_BibleShape == []C5_BibleInv /\ [][C5_BibleStep]_vars

\* Two analyses of different premises since the last reset.
C5_Witness ==
    \E s \in Sessions :
        /\ Idle(sess[s]) /\ Len(sess[s].premLog) = 2
        /\ sess[s].premLog[1] # sess[s].premLog[2]
        /\ sess[s].ss["story_bible"].summary # "Start of the story."

\* C6: generate_outline returns the fixed outline with the genre and the
\* premise embedded verbatim, whatever story-bible context it is given, and
\* that is the scene card the interaction leaves.
OutlineOf(genre, premise) ==
    "{\n    \"title\": \"Mock Outline for " \o genre
    \o "\",\n    \"beats\": [\n        \"1. " \o premise
    \o " (The Setup)\",\n        \"2. The protagonist faces a glitch in the system.\",\n"
    \o "        \"3. A sudden betrayal occurs.\",\n        \"4. Cliffhanger ending.\"\n    ]\n}"

C6_OutlineDeterministic ==
    \A s \in Sessions :
        CallOf(sess[s], "generate_outline") =>
            LET c == sess[s].call[1]
            IN  /\ c.result = OutlineOf(c.args[2], c.args[1])
                /\ c.args[1] = sess[s].premise /\ c.args[2] = sess[s].genre
                /\ Idle(sess[s]) => sess[s].ss["scene_card"] = OutlineOf(c.args[2], c.args[1])

\* An outline generated from a story bible that analyses have extended.
C6_Witness ==
    \E s \in Sessions :
        /\ Idle(sess[s]) /\ CallOf(sess[s], "generate_outline")
        /\ sess[s].premLog # <<>> /\ sess[s].premise # ""
        /\ sess[s].call[1].args[3]
              # "{\"characters\": {}, \"summary\": \"Start of the story.\"}"

\* C7: the scene card passed to write_draft is never empty.
C7_DraftCardNonEmpty ==
    \A s \in Sessions :
        CallOf(sess[s], "write_draft") => sess[s].call[1].args[1] # ""

Unchanged(s, keys) == \A k \in keys : sess'[s].ss[k] = sess[s].ss[k]

C9_Frame ==
    \A s \in Sessions :
        sess'[s] # sess[s] /\ DOMAIN sess[s].ss = StateKeys =>
            /\ sess'[s].click \in {"generate", "none"}
                  => Unchanged(s, {"draft", "report", "story_bible"})
            /\ sess'[s].click = "write" => Unchanged(s, {"report", "story_bible"})
            /\ sess'[s].click = "analyze" => Unchanged(s, {"draft"})

C9_Shown ==
    \A s \in Sessions :
        Idle(sess[s]) =>
            /\ Truthy(sess[s].ss["draft"]) <=> "prose" \in sess[s].display
            /\ Truthy(sess[s].ss["report"]) <=> "report" \in sess[s].display

C9_StagesWriteOwnOutput == []C9_Shown /\ [][C9_Frame]_vars

\* An outline regenerated under a draft and a report made from an older one.
C9_Witness ==
    \E s \in Sessions :
        /\ Idle(sess[s]) /\ sess[s].fired = "outline"
        /\ Truthy(sess[s].ss["draft"]) /\ Truthy(sess[s].ss["report"])
        /\ sess[s].ss["scene_card"] # sess[s].card0
        /\ {"prose", "report"} \subseteq sess[s].display

\* C10: the environment variable holds the non-empty key entered last, and
\* once set is never unset, also when the key field is emptied or the session
\* memory cleared.
C10_EnvInv == \A s \in Sessions : environ[procOf[s]] = entered[procOf[s]]

C10_EnvStep == \A p \in DOMAIN environ : environ[p] # "" => environ'[p] # ""

C10_KeyOnlySet == []C10_EnvInv /\ [][C10_EnvStep]_vars

\* llm is None while the variable still holds a credential, after a reset.
C10_Witness ==
    \E s \in Sessions :
        /\ Idle(sess[s]) /\ sess[s].fired = "reset"
        /\ sess[s].llm = <<>> /\ sess[s].api_key = ""
        /\ environ[procOf[s]] = "sk-B"
====
